---- MODULE Spec2Model ----
(***************************************************************************)
(* Model of the breast-diagnostic service planning tool:                   *)
(*   src/analysis/geography.py  get_lat_lon (postcode resolver, cached)    *)
(*   src/analysis/travel.py     haversine_np, compute_distance_time        *)
(*   src/analysis/demand.py     nearest_metrics                            *)
(*   src/app.py                 the Streamlit script (load, geocode,       *)
(*                              select sites, proposed site, evaluation)   *)
(*                                                                         *)
(* Floating-point values are modelled as exact rationals <<n, d>>, d > 0,  *)
(* in lowest terms, so that equality of two values is equality of tuples.  *)
(* Strings that the code inspects character by character (postcodes) are   *)
(* sequences of one-character strings.                                     *)
(***************************************************************************)
EXTENDS Integers, Sequences, FiniteSets, TLC

VARIABLES
    pc,                 \* position of the Streamlit script run
    sidebar,            \* car_speed, pt_speed, fuel_cost, co2_per_mile
    df,                 \* the uploaded dataset
    hospital_names,     \* st.multiselect result, in selection order
    new_site_postcode,  \* st.text_input result
    hospital_df,        \* selected site rows (plus the proposed site)
    gp_df,              \* demand-point rows
    results,            \* everything the evaluation computes
    message,            \* last st.error / st.warning / st.success shown
    cache,              \* st.cache_data store of get_lat_lon
    requests,           \* number of requests.get calls issued so far
    returned,           \* what each get_lat_lon call returned, in call order
    call                \* the most recent direct library-function call

vars == <<pc, sidebar, df, hospital_names, new_site_postcode, hospital_df,
          gp_df, results, message, cache, requests, returned, call>>

appVars == <<pc, sidebar, df, hospital_names, new_site_postcode, hospital_df,
             gp_df, results, message>>

resolverVars == <<cache, requests, returned>>

\* Python values that may be None (or NaN) are sets: None is {}, v is {v}.
None == {}

Some(v) == {v}

Val(x) == CHOOSE v \in x : TRUE

NoError == "ok"

(***************************************************************************)
(* Bounds of the model.                                                    *)
(***************************************************************************)
MaxRows == 3          \* rows of an uploaded dataset
MaxSelected == 2      \* hospital sites picked in the multiselect
MaxPts == 2           \* rows of a coordinate array in a direct library call
MaxLen == 6           \* characters of a postcode string in a direct call
MaxRetries == 2       \* retries argument in a direct / cached resolver call
MaxCalls == 2         \* calls of the cached resolver in the resolver runs

(***************************************************************************)
(* Exact arithmetic standing for Python / numpy float arithmetic.          *)
(***************************************************************************)
Abs(x) == IF x < 0 THEN -x ELSE x

RECURSIVE GCD(_, _)
GCD(a, b) == IF b = 0 THEN a ELSE GCD(b, a % b)

Norm(n, d) ==
    LET g == GCD(Abs(n), d) IN <<n \div g, d \div g>>

Zero == <<0, 1>>

FromInt(k) == <<k, 1>>

RatAdd(x, y) == Norm(x[1] * y[2] + y[1] * x[2], x[2] * y[2])

RatSub(x, y) == Norm(x[1] * y[2] - y[1] * x[2], x[2] * y[2])

RatMul(x, y) == Norm(x[1] * y[1], x[2] * y[2])

\* x / y for y # 0
RatDiv(x, y) ==
    IF y[1] > 0 THEN Norm(x[1] * y[2], x[2] * y[1])
                ELSE Norm(-(x[1] * y[2]), x[2] * (-y[1]))

RatLess(x, y) == x[1] * y[2] < y[1] * x[2]

RatLeq(x, y) == x[1] * y[2] <= y[1] * x[2]

IsPositive(x) == RatLess(Zero, x)

RECURSIVE RatSum(_)
RatSum(s) == IF s = <<>> THEN Zero ELSE RatAdd(Head(s), RatSum(Tail(s)))

\* np.min over a non-empty sequence
RECURSIVE RatMin(_)
RatMin(s) ==
    IF Len(s) = 1 THEN s[1]
    ELSE LET m == RatMin(Tail(s)) IN IF RatLeq(s[1], m) THEN s[1] ELSE m

\* np.argmin over a non-empty sequence: the first index of the minimum
ArgMin(s) ==
    CHOOSE j \in 1..Len(s) :
        /\ s[j] = RatMin(s)
        /\ \A k \in 1..(j - 1) : s[k] # RatMin(s)

(***************************************************************************)
(* geography.py: the postcode resolver.                                    *)
(***************************************************************************)
UpperLetters == {"A", "B"}

LowerLetters == {"a", "b"}

Digits == {"1"}

Whitespace == {" "}

\* str.upper() on one character
UpperChar(c) == CASE c = "a" -> "A" [] c = "b" -> "B" [] OTHER -> c

upper(s) == [i \in 1..Len(s) |-> UpperChar(s[i])]

\* str.strip(): drop leading and trailing whitespace
RECURSIVE lstrip(_)
lstrip(s) ==
    IF s # <<>> /\ Head(s) \in Whitespace THEN lstrip(Tail(s)) ELSE s

RECURSIVE rstrip(_)
rstrip(s) ==
    IF s # <<>> /\ s[Len(s)] \in Whitespace
        THEN rstrip(SubSeq(s, 1, Len(s) - 1)) ELSE s

strip(s) == rstrip(lstrip(s))

\* [A-Z] and \d under re.IGNORECASE
IsLetter(c) == c \in UpperLetters \cup LowerLetters

IsDigit(c) == c \in Digits

\* POSTCODE_REGEX.match(s):  ^[A-Z]{1,2}\d[A-Z\d]? ?\d[A-Z]{2}$
POSTCODE_REGEX_match(s) ==
    \E n \in 1..2, o \in 0..1, sp \in 0..1 :
        /\ Len(s) = n + 1 + o + sp + 3
        /\ \A i \in 1..n : IsLetter(s[i])
        /\ IsDigit(s[n + 1])
        /\ (o = 1 => (IsLetter(s[n + 2]) \/ IsDigit(s[n + 2])))
        /\ (sp = 1 => s[n + 1 + o + 1] = " ")
        /\ IsDigit(s[n + 1 + o + sp + 1])
        /\ IsLetter(s[n + 1 + o + sp + 2])
        /\ IsLetter(s[n + 1 + o + sp + 3])

RECURSIVE RemoveSpaces(_)
RemoveSpaces(s) ==
    IF s = <<>> THEN <<>>
    ELSE IF Head(s) = " " THEN RemoveSpaces(Tail(s))
    ELSE <<Head(s)>> \o RemoveSpaces(Tail(s))

\* The JSON "result" postcodes.io holds for a URL (the upstream data, fixed
\* for the whole run): three known postcodes on the 51st parallel, and no
\* result for anything else.
Upstream(postcode) ==
    LET q == RemoveSpaces(postcode) IN
    CASE q = <<"A", "1", "1", "A", "A">> -> Some([latitude |-> 51, longitude |-> 0])
      [] q = <<"B", "1", "1", "A", "A">> -> Some([latitude |-> 51, longitude |-> -1])
      [] q = <<"A", "A", "1", "1", "A", "A">> -> Some([latitude |-> 51, longitude |-> -2])
      [] OTHER -> None

\* What one requests.get can do: raise RequestException, answer with a status
\* other than 200, or answer 200 with the upstream JSON.
Responses == {"exception", "non200", "ok"}

\* The for loop of get_lat_lon; net[k] is the outcome of the k-th request.
RECURSIVE attempt_loop(_, _, _, _)
attempt_loop(postcode, retries, net, attempt) ==
    IF attempt > retries
        THEN [lat |-> None, lon |-> None, requests |-> attempt - 1]
    ELSE IF net[attempt] = "ok"
        THEN IF Upstream(postcode) # None
                THEN [lat |-> Some(Val(Upstream(postcode)).latitude),
                      lon |-> Some(Val(Upstream(postcode)).longitude),
                      requests |-> attempt]
                ELSE [lat |-> None, lon |-> None, requests |-> attempt]
    ELSE attempt_loop(postcode, retries, net, attempt + 1)

\* Faulty variant: the format is only checked once the requests have been made.
get_lat_lon_validate_late(postcode, retries, net) ==
    LET normalized == upper(strip(postcode))
        r == attempt_loop(normalized, retries, net, 1)
    IN IF ~POSTCODE_REGEX_match(normalized)
        THEN [lat |-> None, lon |-> None, requests |-> r.requests]
        ELSE r

\* The body of get_lat_lon (without the cache); "requests" counts the
\* requests.get calls the lookup issued.
get_lat_lon(postcode, retries, net) ==
    LET normalized == upper(strip(postcode)) IN
    IF ~POSTCODE_REGEX_match(normalized)
        THEN [lat |-> None, lon |-> None, requests |-> 0]
        ELSE attempt_loop(normalized, retries, net, 1)

\* @st.cache_data: the store is keyed by the arguments as passed.
cache_key(postcode, retries) == <<postcode, retries>>

\* the entry of the call log for one call
call_record(postcode, retries, r) ==
    [postcode |-> postcode, retries |-> retries, lat |-> r.lat, lon |-> r.lon,
     requests |-> r.requests]

\* Faulty variant: only resolved outcomes are stored.
cached_get_lat_lon_resolved_only(c, postcode, retries, net) ==
    LET key == <<postcode, retries>> IN
    IF key \in DOMAIN c
        THEN [lat |-> c[key].lat, lon |-> c[key].lon, requests |-> 0,
              cache |-> c]
        ELSE LET r == get_lat_lon(postcode, retries, net) IN
             [lat |-> r.lat, lon |-> r.lon, requests |-> r.requests,
              cache |-> IF r.lat = None THEN c
                        ELSE [k \in (DOMAIN c) \cup {key} |->
                                IF k = key THEN [lat |-> r.lat, lon |-> r.lon]
                                           ELSE c[k]]]

\* A cached call on store c: the value returned and the store afterwards.
cached_get_lat_lon(c, postcode, retries, net) ==
    LET key == cache_key(postcode, retries) IN
    IF key \in DOMAIN c
        THEN [lat |-> c[key].lat, lon |-> c[key].lon, requests |-> 0,
              cache |-> c]
        ELSE LET r == get_lat_lon(postcode, retries, net) IN
             [lat |-> r.lat, lon |-> r.lon, requests |-> r.requests,
              cache |-> [k \in (DOMAIN c) \cup {key} |->
                            IF k = key THEN [lat |-> r.lat, lon |-> r.lon]
                                       ELSE c[k]]]

(***************************************************************************)
(* travel.py: distances and travel times.                                  *)
(***************************************************************************)
\* The coordinates (degrees) the model's postcodes and datasets use.
Coords == {<<51, 0>>, <<51, -1>>, <<51, -2>>}

\* haversine_np for one pair of points of Coords, R = 3959 miles, to a tenth
\* of a mile: one degree of longitude at latitude 51 is 43.5 miles, two
\* degrees are 87.0 miles; identical points are exactly 0 apart.
haversine_np(lat1, lon1, lat2, lon2) ==
    CASE lat1 = lat2 /\ lon1 = lon2 -> Zero
      [] lat1 = 51 /\ lat2 = 51 /\ Abs(lon2 - lon1) = 1 -> <<87, 2>>
      [] lat1 = 51 /\ lat2 = 51 /\ Abs(lon2 - lon1) = 2 -> <<87, 1>>
      [] lat1 = 51 /\ lat2 = 51 /\ Abs(lon2 - lon1) = 3 -> <<261, 2>>

ndim(arr) == Len(arr.shape)

\* an (n, m) ndarray filled entry by entry
Matrix(n, m, f(_, _)) ==
    [type |-> "ndarray", shape |-> <<n, m>>,
     data |-> [i \in 1..n |-> [j \in 1..m |-> f(i, j)]]]

\* Faulty variant: the speeds are rejected only when both are <= 0.  A division by
\* a zero speed then gives inf, as it does on numpy arrays, written <<1, 0>>.
compute_distance_time_and(gp_coords, hosp_coords, car_speed_mph, pt_speed_mph) ==
    IF ndim(gp_coords) # 2 \/ gp_coords.shape[2] # 2
        THEN [err |-> "ValueError", msg |-> "gp_coords must be (n_gps, 2) array"]
    ELSE IF ndim(hosp_coords) # 2 \/ hosp_coords.shape[2] # 2
        THEN [err |-> "ValueError", msg |-> "hosp_coords must be (n_hospitals, 2) array"]
    ELSE IF RatLeq(car_speed_mph, Zero) /\ RatLeq(pt_speed_mph, Zero)
        THEN [err |-> "ValueError", msg |-> "Speeds must be positive"]
    ELSE
        LET n == gp_coords.shape[1]
            m == hosp_coords.shape[1]
            d(i, j) == haversine_np(gp_coords.data[i][1], gp_coords.data[i][2],
                                    hosp_coords.data[j][1], hosp_coords.data[j][2])
            minutes(x, speed) == IF speed = Zero THEN <<1, 0>>
                                 ELSE RatMul(RatDiv(x, speed), FromInt(60))
            car(i, j) == minutes(d(i, j), car_speed_mph)
            pt(i, j) == minutes(d(i, j), pt_speed_mph)
        IN [err |-> NoError,
            dist_miles |-> Matrix(n, m, d),
            car_time_min |-> Matrix(n, m, car),
            pt_time_min |-> Matrix(n, m, pt)]

compute_distance_time(gp_coords, hosp_coords, car_speed_mph, pt_speed_mph) ==
    IF ndim(gp_coords) # 2 \/ gp_coords.shape[2] # 2
        THEN [err |-> "ValueError", msg |-> "gp_coords must be (n_gps, 2) array"]
    ELSE IF ndim(hosp_coords) # 2 \/ hosp_coords.shape[2] # 2
        THEN [err |-> "ValueError", msg |-> "hosp_coords must be (n_hospitals, 2) array"]
    ELSE IF RatLeq(car_speed_mph, Zero) \/ RatLeq(pt_speed_mph, Zero)
        THEN [err |-> "ValueError", msg |-> "Speeds must be positive"]
    ELSE
        LET n == gp_coords.shape[1]
            m == hosp_coords.shape[1]
            d(i, j) == haversine_np(gp_coords.data[i][1], gp_coords.data[i][2],
                                    hosp_coords.data[j][1], hosp_coords.data[j][2])
            car(i, j) == RatMul(RatDiv(d(i, j), car_speed_mph), FromInt(60))
            pt(i, j) == RatMul(RatDiv(d(i, j), pt_speed_mph), FromInt(60))
        IN [err |-> NoError,
            dist_miles |-> Matrix(n, m, d),
            car_time_min |-> Matrix(n, m, car),
            pt_time_min |-> Matrix(n, m, pt)]

(***************************************************************************)
(* demand.py: nearest-site metrics.                                        *)
(***************************************************************************)
\* an (n,) ndarray
Vector(n, f(_)) ==
    [type |-> "ndarray", shape |-> <<n>>, data |-> [i \in 1..n |-> f(i)]]

\* Faulty variant: the first column (a[:, 0]) in place of the row minimum.
np_first_axis1(a) ==
    LET row(i) == a.data[i][1] IN Vector(a.shape[1], row)

\* np.min(a, axis=1) of an (n, m) array with m > 0
np_min_axis1(a) ==
    LET row(i) == RatMin(a.data[i]) IN Vector(a.shape[1], row)

\* Faulty variant: the minutes are not converted to hours.
nearest_metrics_minutes_as_hours(dist_miles, car_time_min, pt_time_min, monthly_referrals, car_speed_mph, fuel_cost_per_mile, co2_per_mile) ==
    IF \E arr \in {dist_miles, car_time_min, pt_time_min, monthly_referrals} :
           arr.type # "ndarray"
        THEN [err |-> "TypeError", msg |-> "Inputs must be numpy arrays"]
    \* a reduction over an axis of length 0 has no identity: numpy raises
    ELSE IF dist_miles.shape[2] = 0
        THEN [err |-> "ValueError", msg |-> "zero-size array to reduction operation minimum"]
    ELSE
        LET n == dist_miles.shape[1]
            nearest_dist == np_min_axis1(dist_miles)
            nearest_car_time == np_min_axis1(car_time_min)
            nearest_pt_time == np_min_axis1(pt_time_min)
            miles(i) == RatMul(nearest_car_time.data[i], car_speed_mph)
            fc(i) == RatMul(miles(i), fuel_cost_per_mile)
            co(i) == RatMul(miles(i), co2_per_mile)
            wc(i) == RatMul(monthly_referrals.data[i], nearest_car_time.data[i])
            wp(i) == RatMul(monthly_referrals.data[i], nearest_pt_time.data[i])
            ws(i) == RatAdd(wc(i), wp(i))
        IN [err |-> NoError,
            nearest_dist |-> nearest_dist,
            nearest_car_time |-> nearest_car_time,
            nearest_pt_time |-> nearest_pt_time,
            fuel_cost |-> Vector(n, fc),
            co2 |-> Vector(n, co),
            weighted_car |-> Vector(n, wc),
            weighted_pt |-> Vector(n, wp),
            weighted_access_score |-> Vector(n, ws)]

nearest_metrics(dist_miles, car_time_min, pt_time_min, monthly_referrals, car_speed_mph, fuel_cost_per_mile, co2_per_mile) ==
    IF \E arr \in {dist_miles, car_time_min, pt_time_min, monthly_referrals} :
           arr.type # "ndarray"
        THEN [err |-> "TypeError", msg |-> "Inputs must be numpy arrays"]
    \* a reduction over an axis of length 0 has no identity: numpy raises
    ELSE IF dist_miles.shape[2] = 0
        THEN [err |-> "ValueError", msg |-> "zero-size array to reduction operation minimum"]
    ELSE
        LET n == dist_miles.shape[1]
            nearest_dist == np_min_axis1(dist_miles)
            nearest_car_time == np_min_axis1(car_time_min)
            nearest_pt_time == np_min_axis1(pt_time_min)
            miles(i) == RatMul(RatDiv(nearest_car_time.data[i], FromInt(60)),
                               car_speed_mph)
            fc(i) == RatMul(miles(i), fuel_cost_per_mile)
            co(i) == RatMul(miles(i), co2_per_mile)
            wc(i) == RatMul(monthly_referrals.data[i], nearest_car_time.data[i])
            wp(i) == RatMul(monthly_referrals.data[i], nearest_pt_time.data[i])
            ws(i) == RatAdd(wc(i), wp(i))
        IN [err |-> NoError,
            nearest_dist |-> nearest_dist,
            nearest_car_time |-> nearest_car_time,
            nearest_pt_time |-> nearest_pt_time,
            fuel_cost |-> Vector(n, fc),
            co2 |-> Vector(n, co),
            weighted_car |-> Vector(n, wc),
            weighted_pt |-> Vector(n, wp),
            weighted_access_score |-> Vector(n, ws)]

(***************************************************************************)
(* Initial state: nothing uploaded, empty cache, no call made.             *)
(***************************************************************************)
NoResults == [status |-> "none"]

NoCall == [fn |-> "none"]

EmptyCache == [k \in {} |-> None]

Init ==
    /\ pc = "start"
    /\ sidebar = [mode |-> "none"]
    /\ df = <<>>
    /\ hospital_names = <<>>
    /\ new_site_postcode = <<>>
    /\ hospital_df = <<>>
    /\ gp_df = <<>>
    /\ results = NoResults
    /\ message = ""
    /\ cache = EmptyCache
    /\ requests = 0
    /\ returned = <<>>
    /\ call = NoCall

(***************************************************************************)
(* app.py: one run of the Streamlit script, block by block.                *)
(***************************************************************************)
Range(f) == {f[i] : i \in DOMAIN f}

\* sidebar defaults, and the one set of values the sliders are moved to
SimpleDefaults ==
    [mode |-> "Simple planning", car_speed |-> <<40, 1>>, pt_speed |-> <<25, 1>>,
     fuel_cost |-> <<1, 5>>, co2_per_mile |-> <<1, 4>>]

AdvancedChoices ==
    {[mode |-> "Advanced analysis", car_speed |-> <<60, 1>>, pt_speed |-> <<30, 1>>,
      fuel_cost |-> <<1, 10>>, co2_per_mile |-> <<1, 1>>]}

Sidebar ==
    /\ pc = "start"
    /\ sidebar' \in {SimpleDefaults} \cup AdvancedChoices
    /\ pc' = "upload"
    /\ UNCHANGED <<df, hospital_names, new_site_postcode, hospital_df, gp_df,
                   results, message, resolverVars, call>>

\* Descriptions of the rows of an uploaded dataset, all different.
Descriptions == <<"d1", "d2", "d3", "d4", "d5", "d6">>

DatasetPostcodes ==
    { <<"A", "1", "1", "A", "A">>, <<"B", "1", "1", "A", "A">> }

\* a Referrals cell: text that is no number (None), or a number
RawReferrals == {None, Some(-1), Some(0), Some(2)}

\* Faulty variant: negative values are kept.
coerce_referrals_no_clamp(cell) ==
    FromInt(IF cell = None THEN 0 ELSE Val(cell))

\* pd.to_numeric(errors="coerce").fillna(0), then negative values set to 0
coerce_referrals(cell) ==
    LET numeric == IF cell = None THEN 0 ELSE Val(cell)
    IN FromInt(IF numeric < 0 THEN 0 ELSE numeric)

\* The result_latitude / result_longitude cells of a row of a CSV that
\* brings its own coordinate columns: empty cells are NaN.
CsvCoords ==
    { <<None, None>>, <<Some(51), None>>, <<Some(51), Some(0)>>,
      <<Some(51), Some(-1)>>, <<Some(51), Some(-2)>> }

\* the coordinate columns of an n-row CSV: absent, or one pair per row
CsvCoordinateColumns(n) == {<<>>} \cup [1..n -> CsvCoords]

\* "result_latitude" in df.columns and "result_longitude" in df.columns
has_coordinate_columns(rows) ==
    rows # <<>> /\ {"result_latitude", "result_longitude"} \subseteq DOMAIN rows[1]

LoadData ==
    /\ pc = "upload"
    /\ \/ /\ message' = "Upload a CSV"
          /\ pc' = "stopped"
          /\ df' = df
       \/ \E n \in 1..MaxRows :
          \E postcodes \in [1..n -> DatasetPostcodes],
             referrals \in [1..n -> RawReferrals],
             coords \in CsvCoordinateColumns(n) :
             \* the postcodes of a CSV with coordinate columns are never read
             /\ coords # <<>> => \A i \in 1..n : postcodes[i] = postcodes[1]
             /\ LET rows == [i \in 1..n |->
                               IF coords = <<>>
                               THEN [Description |-> Descriptions[i],
                                     Postcode |-> postcodes[i],
                                     Referrals |-> referrals[i]]
                               ELSE [Description |-> Descriptions[i],
                                     Postcode |-> postcodes[i],
                                     Referrals |-> referrals[i],
                                     result_latitude |-> coords[i][1],
                                     result_longitude |-> coords[i][2]]]
                IN IF Cardinality({rows[i].Description : i \in 1..n}) < 2
                   THEN /\ message' = "Dataset must contain GP practices and at least one hospital site."
                        /\ pc' = "stopped"
                        /\ df' = rows
                   ELSE /\ df' = [i \in 1..n |->
                                   [rows[i] EXCEPT
                                       !.Referrals = coerce_referrals(@)]]
                        /\ message' = ""
                        /\ pc' = "geocode"
    /\ UNCHANGED <<sidebar, hospital_names, new_site_postcode, hospital_df,
                   gp_df, results, resolverVars, call>>

DefaultRetries == 2

\* During one lookup the network is up, or it is down for every attempt.
AppNetScripts == {<<"ok", "ok">>, <<"exception", "non200">>}

\* df["Postcode"].apply(get_lat_lon): the rows in order, through the cache;
\* net[p] is what the network does while postcode p is looked up.
RECURSIVE geocode_rows(_, _, _)
geocode_rows(rows, c, net) ==
    IF rows = <<>> THEN [latlon |-> <<>>, cache |-> c, requests |-> 0, log |-> <<>>]
    ELSE LET r == cached_get_lat_lon(c, Head(rows).Postcode, DefaultRetries,
                                     net[Head(rows).Postcode])
             rest == geocode_rows(Tail(rows), r.cache, net)
         IN [latlon |-> <<<<r.lat, r.lon>>>> \o rest.latlon,
             cache |-> rest.cache,
             requests |-> r.requests + rest.requests,
             log |-> <<call_record(Head(rows).Postcode, DefaultRetries, r)>>
                        \o rest.log]

\* Faulty variant: dropna(how="all"), which keeps a row with one coordinate.
dropna_how_all(rows) ==
    LET resolved(row) == row.result_latitude # None \/ row.result_longitude # None
    IN SelectSeq(rows, resolved)

\* df.dropna(subset=["result_latitude", "result_longitude"])
dropna(rows) ==
    LET resolved(row) == row.result_latitude # None /\ row.result_longitude # None
    IN SelectSeq(rows, resolved)

Geocode ==
    /\ pc = "geocode"
    /\ \E net \in [DatasetPostcodes -> AppNetScripts] :
        LET g == IF has_coordinate_columns(df)
                    THEN [latlon |-> [i \in 1..Len(df) |->
                                        <<df[i].result_latitude,
                                          df[i].result_longitude>>],
                          cache |-> cache, requests |-> 0, log |-> <<>>]
                    ELSE geocode_rows(df, cache, net)
            located == [i \in 1..Len(df) |->
                          [Description |-> df[i].Description,
                           Postcode |-> df[i].Postcode,
                           Referrals |-> df[i].Referrals,
                           result_latitude |-> g.latlon[i][1],
                           result_longitude |-> g.latlon[i][2]]]
        IN /\ df' = dropna(located)
           /\ message' = IF Len(dropna(located)) < Len(df)
                            THEN "entries failed geocoding and will be removed"
                            ELSE message
           /\ cache' = g.cache
           /\ requests' = requests + g.requests
           /\ returned' = returned \o g.log
    /\ pc' = "select"
    /\ UNCHANGED <<sidebar, hospital_names, new_site_postcode, hospital_df,
                   gp_df, results, call>>

\* what st.multiselect can return: distinct options, in the order picked
Selections(options) ==
    UNION {{sel \in [1..k -> options] :
                \A i \in 1..k, j \in 1..k : i # j => sel[i] # sel[j]} :
           k \in 0..MaxSelected}

\* df[df["Description"].isin(hospital_names)]
isin_rows(rows, names) ==
    LET selected(row) == row.Description \in Range(names)
    IN SelectSeq(rows, selected)

\* df[~df["Description"].isin(hospital_names)]
not_isin_rows(rows, names) ==
    LET other(row) == row.Description \notin Range(names)
    IN SelectSeq(rows, other)

SelectHospitals ==
    /\ pc = "select"
    /\ \E sel \in Selections({df[i].Description : i \in 1..Len(df)}) :
        /\ hospital_names' = sel
        /\ IF sel = <<>>
            THEN /\ message' = "Select at least one hospital site."
                 /\ pc' = "stopped"
                 /\ UNCHANGED <<hospital_df, gp_df>>
            ELSE /\ hospital_df' = isin_rows(df, sel)
                 /\ gp_df' = not_isin_rows(df, sel)
                 /\ message' = message
                 /\ pc' = "proposed"
    /\ UNCHANGED <<sidebar, df, new_site_postcode, results, resolverVars, call>>

\* what is typed into "Enter postcode for proposed site": nothing, a known
\* postcode on the Greenwich meridian, a known postcode west of the dataset's,
\* or a malformed one
ProposedInputs ==
    { <<>>, <<"A", "1", "1", "A", "A">>, <<"A", "A", "1", "1", "A", "A">>,
      <<"A", "1">> }

\* Python truth value of a number or None
Truthy(x) == x # None /\ Val(x) # 0

\* lines 180-191: the site rows after the proposed-site block
with_proposed_site(sites, lat, lon) ==
    IF Truthy(lat) /\ Truthy(lon)
        THEN Append(sites, [Description |-> "Proposed Site",
                            result_latitude |-> lat,
                            result_longitude |-> lon])
        ELSE sites

ProposedSite ==
    /\ pc = "proposed"
    /\ \E typed \in ProposedInputs :
        /\ new_site_postcode' = typed
        /\ IF typed = <<>>
            THEN UNCHANGED <<hospital_df, message, cache, requests, returned>>
            ELSE \E net \in AppNetScripts :
                LET r == cached_get_lat_lon(cache, typed, DefaultRetries, net)
                IN /\ hospital_df' = with_proposed_site(hospital_df, r.lat, r.lon)
                   /\ message' = IF Truthy(r.lat) /\ Truthy(r.lon)
                                    THEN "Proposed site added to scenario."
                                    ELSE "Invalid postcode for proposed site."
                   /\ cache' = r.cache
                   /\ requests' = requests + r.requests
                   /\ returned' = Append(returned,
                                    call_record(typed, DefaultRetries, r))
    /\ pc' = "evaluate"
    /\ UNCHANGED <<sidebar, df, hospital_names, gp_df, results, call>>

\* df[["result_latitude", "result_longitude"]].to_numpy()
coords_to_numpy(rows) ==
    [type |-> "ndarray", shape |-> <<Len(rows), 2>>,
     data |-> [i \in 1..Len(rows) |->
                <<Val(rows[i].result_latitude), Val(rows[i].result_longitude)>>]]

\* gp_df["Referrals"].to_numpy()
referrals_to_numpy(rows) ==
    LET ref(i) == rows[i].Referrals IN Vector(Len(rows), ref)

\* a[:, 0]: the first column (the model counts columns from 1)
first_column(a) ==
    LET col(i) == a.data[i][1] IN Vector(a.shape[1], col)

\* a[:, j]
column(a, j) ==
    LET col(i) == a.data[i][j] IN Vector(a.shape[1], col)

\* elementwise product of two vectors of one length
times(u, v) ==
    LET prod(i) == RatMul(u.data[i], v.data[i]) IN Vector(u.shape[1], prod)

np_sum(v) == RatSum(v.data)

\* Faulty variant: the division is not guarded, so a zero baseline gives NaN
\* (0.0 / 0.0 on numpy floats), written <<0, 0>>.
improvement_pct_unguarded(baseline_total, total_weighted) ==
    IF baseline_total = Zero
        THEN <<0, 0>>
        ELSE RatMul(RatDiv(RatSub(baseline_total, total_weighted),
                           baseline_total), FromInt(100))

\* Faulty variant: the scenario total as a percentage of the baseline, not the
\* reduction.
improvement_pct_ratio(baseline_total, total_weighted) ==
    IF IsPositive(baseline_total)
        THEN RatMul(RatDiv(total_weighted, baseline_total), FromInt(100))
        ELSE Zero

\* lines 248-256
improvement_pct(baseline_total, total_weighted) ==
    IF IsPositive(baseline_total)
        THEN RatMul(RatDiv(RatSub(baseline_total, total_weighted),
                           baseline_total), FromInt(100))
        ELSE Zero

\* np.argmin(car_time, axis=1); site indices count from 1 in the model
np_argmin_axis1(a) == [i \in 1..a.shape[1] |-> ArgMin(a.data[i])]

\* Faulty variant: the site index compared one off (0-based against 1-based).
referrals_assigned_off_by_one(referrals, nearest_hospital_index, j) ==
    LET gated(i) == IF nearest_hospital_index[i] = j + 1
                        THEN referrals.data[i] ELSE Zero
    IN np_sum(Vector(referrals.shape[1], gated))

\* gp_df.loc[nearest_hospital_index == j, "Referrals"].sum()
referrals_assigned(referrals, nearest_hospital_index, j) ==
    LET gated(i) == IF nearest_hospital_index[i] = j
                        THEN referrals.data[i] ELSE Zero
    IN np_sum(Vector(referrals.shape[1], gated))

\* Faulty variant: only the demand points whose nearest site is j are summed.
total_weighted_demand_assigned_only(time, referrals, j) ==
    LET gated(i) == IF ArgMin(time.data[i]) = j
                        THEN RatMul(time.data[i][j], referrals.data[i])
                        ELSE Zero
    IN np_sum(Vector(referrals.shape[1], gated))

\* np.sum(time[:, j] * gp_df["Referrals"].values)
total_weighted_demand(time, referrals, j) ==
    np_sum(times(column(time, j), referrals))

\* lines 275-291
hospital_summary(sites, referrals, car_time, pt_time, nearest_hospital_index) ==
    [j \in 1..Len(sites) |->
        [Hospital |-> sites[j].Description,
         TotalReferralsAssigned |->
            referrals_assigned(referrals, nearest_hospital_index, j),
         TotalWeightedDemandCar |-> total_weighted_demand(car_time, referrals, j),
         TotalWeightedDemandPT |-> total_weighted_demand(pt_time, referrals, j)]]

\* (baseline_car / car_speed * rate).sum() of lines 341 and 347
baseline_cost_total(baseline_car, car_speed, rate) ==
    LET cost(i) == RatMul(RatDiv(baseline_car.data[i], car_speed), rate)
    IN np_sum(Vector(baseline_car.shape[1], cost))

\* lines 196-291 and the Summary figures: everything computed from the two
\* frames and the sidebar values
evaluation(sites, gps, sb) ==
    LET gp_coords == coords_to_numpy(gps)
        hosp_coords == coords_to_numpy(sites)
        m == compute_distance_time(gp_coords, hosp_coords,
                                   sb.car_speed, sb.pt_speed)
    IN IF m.err # NoError THEN [status |-> "error", err |-> m.err]
       ELSE
       LET referrals == referrals_to_numpy(gps)
           nm == nearest_metrics(m.dist_miles, m.car_time_min, m.pt_time_min,
                                 referrals, sb.car_speed, sb.fuel_cost,
                                 sb.co2_per_mile)
       IN IF nm.err # NoError THEN [status |-> "error", err |-> nm.err]
          ELSE
          LET baseline_car == first_column(m.car_time_min)
              baseline_pt == first_column(m.pt_time_min)
              baseline_total_car == np_sum(times(baseline_car, referrals))
              baseline_total_pt == np_sum(times(baseline_pt, referrals))
              total_weighted_car == np_sum(nm.weighted_car)
              total_weighted_pt == np_sum(nm.weighted_pt)
              nearest_hospital_index == np_argmin_axis1(m.car_time_min)
          IN [status |-> "ok",
              dist |-> m.dist_miles,
              car_time |-> m.car_time_min,
              pt_time |-> m.pt_time_min,
              referrals |-> referrals,
              nearest_dist |-> nm.nearest_dist,
              nearest_car |-> nm.nearest_car_time,
              nearest_pt |-> nm.nearest_pt_time,
              fuel |-> nm.fuel_cost,
              co2 |-> nm.co2,
              weighted_car |-> nm.weighted_car,
              weighted_pt |-> nm.weighted_pt,
              weighted_access_score |-> nm.weighted_access_score,
              baseline_car |-> baseline_car,
              baseline_pt |-> baseline_pt,
              baseline_total_car |-> baseline_total_car,
              baseline_total_pt |-> baseline_total_pt,
              total_weighted_car |-> total_weighted_car,
              total_weighted_pt |-> total_weighted_pt,
              improvement_car_pct |->
                  improvement_pct(baseline_total_car, total_weighted_car),
              improvement_pt_pct |->
                  improvement_pct(baseline_total_pt, total_weighted_pt),
              nearest_hospital_index |-> nearest_hospital_index,
              hospital_summary |->
                  hospital_summary(sites, referrals, m.car_time_min,
                                   m.pt_time_min, nearest_hospital_index),
              co2_delta |->
                  RatSub(np_sum(nm.co2),
                         baseline_cost_total(baseline_car, sb.car_speed,
                                             sb.co2_per_mile)),
              fuel_delta |->
                  RatSub(np_sum(nm.fuel_cost),
                         baseline_cost_total(baseline_car, sb.car_speed,
                                             sb.fuel_cost))]

Evaluate ==
    /\ pc = "evaluate"
    /\ results' = evaluation(hospital_df, gp_df, sidebar)
    /\ pc' = IF results'.status = "ok" THEN "done" ELSE "error"
    /\ UNCHANGED <<sidebar, df, hospital_names, new_site_postcode, hospital_df,
                   gp_df, message, resolverVars, call>>

Next == Sidebar \/ LoadData \/ Geocode \/ SelectHospitals \/ ProposedSite \/ Evaluate

Spec == Init /\ [][Next]_vars

(***************************************************************************)
(* Direct calls of the library functions, on arguments of every shape.     *)
(***************************************************************************)
ValidCoordArrays ==
    UNION {{[type |-> "ndarray", shape |-> <<n, 2>>, data |-> d] :
                d \in [1..n -> Coords]} : n \in 0..MaxPts}

MalformedCoordArrays ==
    {[type |-> "ndarray", shape |-> <<n>>, data |-> <<>>] : n \in 0..MaxPts}
    \cup {[type |-> "ndarray", shape |-> <<n, c>>, data |-> <<>>] :
                n \in 0..MaxPts, c \in {0, 1, 3}}
    \cup {[type |-> "ndarray", shape |-> <<n, 2, 2>>, data |-> <<>>] :
                n \in 0..MaxPts}

CoordArrays == ValidCoordArrays \cup MalformedCoordArrays

SpeedArgs == {<<-40, 1>>, <<0, 1>>, <<25, 1>>, <<40, 1>>}

CostArgs == {<<-1, 5>>, <<0, 1>>, <<1, 5>>}

ReferralArgs == {Zero, <<2, 1>>}

CallComputeDistanceTime ==
    /\ call = NoCall
    /\ \E gp_coords \in CoordArrays, hosp_coords \in CoordArrays,
          car_speed_mph \in SpeedArgs, pt_speed_mph \in SpeedArgs :
        call' = [fn |-> "compute_distance_time",
                 gp_coords |-> gp_coords, hosp_coords |-> hosp_coords,
                 car_speed_mph |-> car_speed_mph, pt_speed_mph |-> pt_speed_mph,
                 ret |-> compute_distance_time(gp_coords, hosp_coords,
                                               car_speed_mph, pt_speed_mph)]
    /\ UNCHANGED <<appVars, resolverVars>>

\* nearest_metrics on the matrices compute_distance_time gives for valid
\* coordinates at matrix_car_speed / 25 mph, with referrals and cost
\* arguments of any sign.
CallNearestMetrics ==
    /\ call = NoCall
    /\ \E gp_coords \in ValidCoordArrays, hosp_coords \in ValidCoordArrays,
          reftype \in {"ndarray", "list"},
          matrix_car_speed \in {<<40, 1>>},
          car_speed_mph \in {<<0, 1>>, <<40, 1>>},
          fuel_cost_per_mile \in CostArgs, co2_per_mile \in {<<1, 4>>} :
        \E refs \in [1..gp_coords.shape[1] -> ReferralArgs] :
            LET m == compute_distance_time(gp_coords, hosp_coords,
                                           matrix_car_speed, <<25, 1>>)
                monthly_referrals ==
                    [type |-> reftype, shape |-> <<gp_coords.shape[1]>>,
                     data |-> refs]
            IN call' = [fn |-> "nearest_metrics",
                        matrix_car_speed |-> matrix_car_speed,
                        dist_miles |-> m.dist_miles,
                        car_time_min |-> m.car_time_min,
                        pt_time_min |-> m.pt_time_min,
                        monthly_referrals |-> monthly_referrals,
                        car_speed_mph |-> car_speed_mph,
                        fuel_cost_per_mile |-> fuel_cost_per_mile,
                        co2_per_mile |-> co2_per_mile,
                        ret |-> nearest_metrics(m.dist_miles, m.car_time_min,
                                    m.pt_time_min, monthly_referrals,
                                    car_speed_mph, fuel_cost_per_mile,
                                    co2_per_mile)]
    /\ UNCHANGED <<appVars, resolverVars>>

CallAlphabet == {"A", "a", "1", " "}

CallStrings == UNION {[1..n -> CallAlphabet] : n \in 0..MaxLen}

NetScripts(retries) ==
    [1..(IF retries > 0 THEN retries ELSE 0) -> Responses]

\* The undecorated get_lat_lon on any string; "received" are the responses
\* the lookup consumed, in order.
CallGetLatLon ==
    /\ call = NoCall
    /\ \E postcode \in CallStrings, retries \in 0..MaxRetries :
        \E net \in NetScripts(retries) :
            LET r == get_lat_lon(postcode, retries, net)
            IN call' = [fn |-> "get_lat_lon",
                        postcode |-> postcode, retries |-> retries,
                        received |-> SubSeq(net, 1, r.requests),
                        ret |-> r]
    /\ UNCHANGED <<appVars, resolverVars>>

NextFn == CallComputeDistanceTime \/ CallNearestMetrics \/ CallGetLatLon

SpecFn == Init /\ [][NextFn]_vars

\* each library function on its own
NextTravel == CallComputeDistanceTime

SpecTravel == Init /\ [][NextTravel]_vars

NextDemand == CallNearestMetrics

SpecDemand == Init /\ [][NextDemand]_vars

NextGeography == CallGetLatLon

SpecGeography == Init /\ [][NextGeography]_vars

(***************************************************************************)
(* The cached resolver called again and again (one server process, whose   *)
(* st.cache_data store lives as long as the process).                      *)
(***************************************************************************)
ResolverInputs ==
    { <<"A", "1", "1", "A", "A">>,
      <<"a", "1", "1", "a", "a">>,
      <<" ", "A", "1", "1", "A", "A">>,
      <<"A", "1">> }

Resolve ==
    \E postcode \in ResolverInputs, retries \in 0..MaxRetries :
        /\ Len(returned) < MaxCalls
        /\ \E net \in NetScripts(retries) :
            LET r == cached_get_lat_lon(cache, postcode, retries, net)
            IN /\ cache' = r.cache
               /\ requests' = requests + r.requests
               /\ returned' = Append(returned,
                                call_record(postcode, retries, r))
        /\ UNCHANGED <<appVars, call>>

NextResolver == Resolve

SpecResolver == Init /\ [][NextResolver]_vars

(***************************************************************************)
(* One uncached lookup, request by request: the for loop of get_lat_lon    *)
(* run one pass at a time, each request answered in any of the three ways. *)
(***************************************************************************)
LookupInputs ==
    { <<"A", "1", "1", "A", "A">>,
      <<"a", "1", "1", "a", "a">>,
      <<" ", "A", "1", "1", "A", "A">>,
      <<"B", "1", "1", "A", "A">>,
      <<"A", "A", "1", "1", "A", "A">>,
      <<"A", "1", "1", "1", "A", "A">>,
      <<"A", "1">>,
      <<>> }

\* Faulty variant: retries counted in addition to the first attempt.
loop_continues_one_more(attempt, retries) == attempt <= retries + 1

\* for attempt in range(1, retries + 1): is there a pass numbered attempt
loop_continues(attempt, retries) == attempt <= retries

\* One pass of the loop body on the response the request got: return on a
\* 200 (with the coordinates when the JSON holds a result), go on to the
\* next pass on any other status and on RequestException.
loop_body(postcode, attempt, response) ==
    IF response = "ok"
        THEN IF Upstream(postcode) # None
                THEN [status |-> "returned",
                      lat |-> Some(Val(Upstream(postcode)).latitude),
                      lon |-> Some(Val(Upstream(postcode)).longitude),
                      attempt |-> attempt]
                ELSE [status |-> "returned", lat |-> None, lon |-> None,
                      attempt |-> attempt]
        ELSE [status |-> "running", lat |-> None, lon |-> None,
              attempt |-> attempt + 1]

\* the call enters get_lat_lon: normalisation and the format check
LookupStart ==
    /\ call = NoCall
    /\ \E postcode \in LookupInputs, retries \in 0..MaxRetries :
        LET normalized == upper(strip(postcode)) IN
        call' = [fn |-> "lookup", argument |-> postcode,
                 postcode |-> normalized, retries |-> retries,
                 received |-> <<>>, attempt |-> 1,
                 lat |-> None, lon |-> None,
                 status |-> IF POSTCODE_REGEX_match(normalized)
                                THEN "running" ELSE "returned"]
    /\ UNCHANGED <<appVars, resolverVars>>

\* one pass of the loop: one requests.get and what the body does with it
LookupRequest ==
    /\ call.fn = "lookup"
    /\ call.status = "running"
    /\ loop_continues(call.attempt, call.retries)
    /\ \E response \in Responses :
        LET r == loop_body(call.postcode, call.attempt, response) IN
        call' = [call EXCEPT !.received = Append(@, response),
                             !.attempt = r.attempt,
                             !.lat = r.lat, !.lon = r.lon,
                             !.status = r.status]
    /\ UNCHANGED <<appVars, resolverVars>>

\* the loop is exhausted: logging.error and return None, None
LookupGiveUp ==
    /\ call.fn = "lookup"
    /\ call.status = "running"
    /\ ~loop_continues(call.attempt, call.retries)
    /\ call' = [call EXCEPT !.status = "returned"]
    /\ UNCHANGED <<appVars, resolverVars>>

NextLookup == LookupStart \/ LookupRequest \/ LookupGiveUp

\* requests.get has timeout=10 and time.sleep(1) ends, so a pass that has
\* started completes and the interpreter goes on to the next statement.
SpecLookup ==
    /\ Init
    /\ [][NextLookup]_vars
    /\ WF_vars(LookupRequest)
    /\ WF_vars(LookupGiveUp)

(***************************************************************************)
(* Properties.                                                             *)
(***************************************************************************)
WellShaped(arr) == Len(arr.shape) = 2 /\ arr.shape[2] = 2

HasShape(mat, n, m) ==
    /\ mat.shape = <<n, m>>
    /\ Len(mat.data) = n
    /\ \A i \in 1..n : Len(mat.data[i]) = m

\* C7: compute_distance_time given a coordinate array that is not (n, 2), or
\* a speed <= 0, returns a ValueError and no matrix; given valid arguments it
\* returns three matrices of shape (demand points x sites).
C7_ValidationAndShape ==
    call.fn = "compute_distance_time" =>
        IF /\ WellShaped(call.gp_coords) /\ WellShaped(call.hosp_coords)
           /\ IsPositive(call.car_speed_mph) /\ IsPositive(call.pt_speed_mph)
        THEN /\ call.ret.err = NoError
             /\ \A mat \in {call.ret.dist_miles, call.ret.car_time_min,
                            call.ret.pt_time_min} :
                    HasShape(mat, call.gp_coords.shape[1],
                             call.hosp_coords.shape[1])
        ELSE /\ call.ret.err = "ValueError"
             /\ DOMAIN call.ret = {"err", "msg"}

\* a rejected call with well-shaped arrays and only the PT speed at fault
C7_Witness ==
    /\ call.fn = "compute_distance_time"
    /\ WellShaped(call.gp_coords) /\ WellShaped(call.hosp_coords)
    /\ call.gp_coords.shape[1] = 2 /\ call.hosp_coords.shape[1] = 1
    /\ IsPositive(call.car_speed_mph) /\ call.pt_speed_mph = Zero
    /\ call.ret.err = "ValueError"

\* C9: get_lat_lon on a string whose stripped, upper-cased form does not match
\* the postcode format returns (None, None) without a single request,
\* whatever retries is.
C9_InvalidFormatNoRequest ==
    (/\ call.fn = "get_lat_lon"
     /\ ~POSTCODE_REGEX_match(upper(strip(call.postcode))))
        => /\ call.ret.lat = None /\ call.ret.lon = None
           /\ call.ret.requests = 0
           /\ call.received = <<>>

\* a malformed postcode looked up with retries left and nothing requested
C9_Witness ==
    /\ call.fn = "get_lat_lon"
    /\ call.postcode = <<"1", "A", "1", "A", "A">>
    /\ call.retries = MaxRetries
    /\ call.ret.requests = 0

SameOutcome(r1, r2) == r1.lat = r2.lat /\ r1.lon = r2.lon

\* C10 (as claimed): any two calls whose addresses are equal after stripping
\* and upper-casing (same retries) returned the same outcome.
C10_IdempotentOnNormalizedAddress ==
    \A i \in 1..Len(returned), j \in 1..Len(returned) :
        (/\ upper(strip(returned[i].postcode)) = upper(strip(returned[j].postcode))
         /\ returned[i].retries = returned[j].retries)
            => SameOutcome(returned[i], returned[j])

\* C10 (amended): any two calls with the same argument string (and retries)
\* returned the same outcome, whatever the network did during either.
C10_IdempotentOnSameArgument ==
    \A i \in 1..Len(returned), j \in 1..Len(returned) :
        (/\ returned[i].postcode = returned[j].postcode
         /\ returned[i].retries = returned[j].retries)
            => SameOutcome(returned[i], returned[j])

\* a known postcode whose first lookup failed on the network after issuing
\* requests, looked up a second time with the same string
C10_Witness ==
    /\ Len(returned) >= 2
    /\ returned[1].postcode = returned[2].postcode
    /\ returned[1].retries = returned[2].retries
    /\ Upstream(upper(strip(returned[1].postcode))) # None
    /\ returned[1].requests > 0
    /\ returned[1].lat = None

(***************************************************************************)
(* Properties of a finished evaluation, stated on the frames and matrices. *)
(***************************************************************************)
Evaluated == results.status = "ok"

GPs == 1..Len(gp_df)

Sites == 1..Len(hospital_df)

Ref(i) == gp_df[i].Referrals

\* the sum of term(i) over a finite set of indices
RECURSIVE SumOver(_, _)
SumOver(S, term) ==
    IF S = {} THEN Zero
    ELSE LET x == CHOOSE y \in S : TRUE
         IN RatAdd(term[x], SumOver(S \ {x}, term))

RowMin(mat, i) ==
    CHOOSE v \in Range(mat.data[i]) : \A w \in Range(mat.data[i]) : RatLeq(v, w)

\* C1: the sites' "Total Referrals Assigned" partition the referrals: their
\* sum over the sites is the sum of the demand points' referrals.
C1_AssignedReferralsPartition ==
    Evaluated =>
        SumOver(Sites, [j \in Sites |->
                    results.hospital_summary[j].TotalReferralsAssigned])
            = SumOver(GPs, [i \in GPs |-> Ref(i)])

\* a demand point with referrals that is equally far from two sites
C1_Witness ==
    /\ Evaluated
    /\ \E i \in GPs, j \in Sites, k \in Sites :
        /\ j # k
        /\ IsPositive(Ref(i))
        /\ results.car_time.data[i][j] = results.car_time.data[i][k]
        /\ \A l \in Sites :
            RatLeq(results.car_time.data[i][j], results.car_time.data[i][l])

\* the position in hospital_df of the site with a given Description
SiteIndex(name) == CHOOSE j \in Sites : hospital_df[j].Description = name

\* C2 (as claimed): the baseline times of every demand point are its times
\* to the first hospital the user selected.
C2_BaselineIsFirstSelected ==
    Evaluated =>
        \A i \in GPs :
            /\ results.baseline_car.data[i]
                 = results.car_time.data[i][SiteIndex(hospital_names[1])]
            /\ results.baseline_pt.data[i]
                 = results.pt_time.data[i][SiteIndex(hospital_names[1])]

ScenarioTotal(time) ==
    SumOver(GPs, [i \in GPs |-> RatMul(Ref(i), RowMin(time, i))])

BaselineTotal(time) ==
    SumOver(GPs, [i \in GPs |-> RatMul(Ref(i), time.data[i][1])])

ImprovementAsSpecified(pct, time) ==
    IF BaselineTotal(time) # Zero
        THEN RatMul(pct, BaselineTotal(time))
                = RatMul(RatSub(BaselineTotal(time), ScenarioTotal(time)),
                         FromInt(100))
        ELSE pct = Zero

\* C3: per mode, improvement = (baseline_total - scenario_total) /
\* baseline_total * 100 when the baseline total is not 0, and exactly 0 when
\* it is 0.
C3_ImprovementPercentage ==
    Evaluated =>
        /\ ImprovementAsSpecified(results.improvement_car_pct, results.car_time)
        /\ ImprovementAsSpecified(results.improvement_pt_pct, results.pt_time)

\* demand points with referrals, all of them at the reference site
C3_Witness ==
    /\ Evaluated
    /\ \E i \in GPs : IsPositive(Ref(i))
    /\ BaselineTotal(results.car_time) = Zero
    /\ results.improvement_car_pct = Zero

\* C4: with the reference site as the only site, both improvements are 0.
C4_SingleSiteNoImprovement ==
    (Evaluated /\ Len(hospital_df) = 1) =>
        /\ results.improvement_car_pct = Zero
        /\ results.improvement_pt_pct = Zero

\* one site, and a demand point with referrals away from it
C4_Witness ==
    /\ Evaluated
    /\ Len(hospital_df) = 1
    /\ \E i \in GPs : IsPositive(Ref(i)) /\ IsPositive(results.car_time.data[i][1])

IsRowMinimumAt(nearest, mat, i, j) ==
    /\ nearest.data[i] = mat.data[i][j]
    /\ \A k \in Sites : RatLeq(nearest.data[i], mat.data[i][k])

\* C5: nearest distance, car time and PT time of a demand point are the
\* minima of its row in their own matrix, all three attained at the site the
\* demand point is assigned to.
C5_NearestIsTrueMinimum ==
    Evaluated =>
        \A i \in GPs :
            LET j == results.nearest_hospital_index[i] IN
            /\ j \in Sites
            /\ IsRowMinimumAt(results.nearest_dist, results.dist, i, j)
            /\ IsRowMinimumAt(results.nearest_car, results.car_time, i, j)
            /\ IsRowMinimumAt(results.nearest_pt, results.pt_time, i, j)

\* a demand point strictly nearer to its assigned site than to the first site
C5_Witness ==
    /\ Evaluated
    /\ \E i \in GPs :
        /\ results.nearest_hospital_index[i] # 1
        /\ RatLess(results.nearest_dist.data[i], results.dist.data[i][1])

\* C6: a site's total weighted demand is the sum over all demand points of
\* referrals x time to that site, so the reference site's is the baseline
\* total.
C6_CatchmentLoadOverAllPoints ==
    Evaluated =>
        /\ \A j \in Sites :
            /\ results.hospital_summary[j].TotalWeightedDemandCar
                 = SumOver(GPs, [i \in GPs |->
                        RatMul(Ref(i), results.car_time.data[i][j])])
            /\ results.hospital_summary[j].TotalWeightedDemandPT
                 = SumOver(GPs, [i \in GPs |->
                        RatMul(Ref(i), results.pt_time.data[i][j])])
        /\ results.hospital_summary[1].TotalWeightedDemandCar
             = results.baseline_total_car
        /\ results.hospital_summary[1].TotalWeightedDemandPT
             = results.baseline_total_pt

\* a site that is not the nearest of a demand point with referrals, and is
\* away from it
C6_Witness ==
    /\ Evaluated
    /\ \E i \in GPs, j \in Sites :
        /\ results.nearest_hospital_index[i] # j
        /\ IsPositive(Ref(i))
        /\ IsPositive(results.car_time.data[i][j])

\* C8 (as claimed): no evaluation completes on an empty demand-point set, an
\* empty site set or a cost parameter <= 0.
C8_FailsFastOnInvalidInput ==
    Evaluated =>
        /\ Len(gp_df) > 0
        /\ Len(hospital_df) > 0
        /\ IsPositive(sidebar.fuel_cost)
        /\ IsPositive(sidebar.co2_per_mile)
        /\ IsPositive(sidebar.car_speed)

InLookup == call.fn = "lookup"

LookupReturned == InLookup /\ call.status = "returned"

\* the responses a lookup got, padded to a full script for get_lat_lon
ReceivedScript ==
    [k \in 1..call.retries |->
        IF k <= Len(call.received) THEN call.received[k] ELSE "exception"]

LookupBounded ==
    InLookup =>
        /\ Len(call.received) <= call.retries
        /\ \A k \in 1..(Len(call.received) - 1) : call.received[k] # "ok"
        /\ call.status \in {"running", "returned"}

LookupOutcome ==
    LookupReturned =>
        LET n == Len(call.received) IN
        /\ IF n > 0 /\ call.received[n] = "ok"
              THEN IF Upstream(call.postcode) # None
                      THEN /\ call.lat = Some(Val(Upstream(call.postcode)).latitude)
                           /\ call.lon = Some(Val(Upstream(call.postcode)).longitude)
                      ELSE call.lat = None /\ call.lon = None
              ELSE /\ call.lat = None /\ call.lon = None
                   /\ n = call.retries \/ ~POSTCODE_REGEX_match(call.postcode)
        /\ LET r == get_lat_lon(call.argument, call.retries, ReceivedScript)
           IN r = [lat |-> call.lat, lon |-> call.lon, requests |-> n]

\* C11: an uncached lookup issues at most `retries` requests, issues none
\* after a 200 response, returns the coordinates of a 200 with a result and
\* unresolved otherwise (a 200 without result, or `retries` failed
\* attempts), and every lookup that has started returns.
C11_BoundedRetriesTerminate ==
    /\ [](LookupBounded /\ LookupOutcome)
    /\ (InLookup ~> LookupReturned)

\* a lookup that gave up after MaxRetries failed requests of both kinds
C11_Witness ==
    /\ LookupReturned
    /\ call.retries = MaxRetries
    /\ Len(call.received) = call.retries
    /\ \E k \in 1..call.retries : call.received[k] = "exception"
    /\ \E k \in 1..call.retries : call.received[k] = "non200"
    /\ call.lat = None

\* the script has reached the coordinate arrays (line 196): the matrix
\* computation is about to start, or has run
AtMatrices == pc \in {"evaluate", "done", "error"}

HasNoNullCoordinate(rows) ==
    \A i \in 1..Len(rows) :
        rows[i].result_latitude # None /\ rows[i].result_longitude # None

\* C12: when compute_distance_time is invoked no demand point and no site
\* (the proposed site included) has a null latitude or longitude, and from
\* then on no resolver call and no network request is made.
C12_ResolvedBeforeMatrices ==
    [][/\ AtMatrices' => HasNoNullCoordinate(gp_df') /\ HasNoNullCoordinate(hospital_df')
       /\ AtMatrices => requests' = requests /\ returned' = returned /\ cache' = cache]_vars

\* an evaluation that ran after rows were removed for a missing coordinate
\* and after the proposed site's lookup used the network
C12_Witness ==
    /\ pc = "done"
    /\ message = "Proposed site added to scenario."
    /\ requests > 0
    /\ Len(df) = 2
    /\ df[2].Description = "d3"
    /\ Len(gp_df) > 0

NearestMetricsReturned == call.fn = "nearest_metrics" /\ call.ret.err = NoError

\* nearest_car_time / 60 * car_speed, the miles the car time stands for
ImpliedMiles(i) ==
    RatMul(RatDiv(call.ret.nearest_car_time.data[i], FromInt(60)),
           call.car_speed_mph)

\* C13: fuel cost and CO2 of a demand point are its implied miles times the
\* fuel rate and the CO2 rate; the implied miles are the nearest distance when
\* the car-time matrix was built with the same car speed; a fuel rate of 0
\* gives fuel cost 0.
C13_FuelAndCO2FromCarTime ==
    NearestMetricsReturned =>
        \A i \in 1..call.dist_miles.shape[1] :
            /\ call.ret.fuel_cost.data[i]
                 = RatMul(ImpliedMiles(i), call.fuel_cost_per_mile)
            /\ call.ret.co2.data[i] = RatMul(ImpliedMiles(i), call.co2_per_mile)
            /\ call.car_speed_mph = call.matrix_car_speed
                 => ImpliedMiles(i) = call.ret.nearest_dist.data[i]
            /\ call.fuel_cost_per_mile = Zero => call.ret.fuel_cost.data[i] = Zero

\* a demand point 43.5 miles from the nearer of two sites, costed at the
\* speed the matrix was built with
C13_Witness ==
    /\ NearestMetricsReturned
    /\ call.car_speed_mph = call.matrix_car_speed
    /\ call.dist_miles.shape = <<2, 2>>
    /\ \E i \in 1..2 :
        /\ call.ret.nearest_dist.data[i] = <<87, 2>>
        /\ call.dist_miles.data[i][1] = <<87, 1>>
        /\ call.ret.fuel_cost.data[i] = <<87, 10>>
        /\ call.ret.co2.data[i] = <<87, 8>>

\* the proposed-site block has run on a typed postcode
ProposedSiteLookedUp == AtMatrices /\ new_site_postcode # <<>>

\* what get_lat_lon returned for the proposed site: the last call of the run
ProposedLookup == returned[Len(returned)]

IsZeroAt(v, i) == v.data[i] = Zero

\* C14 (as claimed): whenever the lookup of the proposed site's postcode
\* returns coordinates, a latitude or longitude of 0 included, the site is
\* appended after the selected sites, and a demand point at its coordinates
\* has nearest distance and nearest car and PT time 0.
C14_ProposedSiteAdded ==
    (ProposedSiteLookedUp /\ ProposedLookup.lat # None /\ ProposedLookup.lon # None) =>
        /\ hospital_df
             = Append(isin_rows(df, hospital_names),
                      [Description |-> "Proposed Site",
                       result_latitude |-> ProposedLookup.lat,
                       result_longitude |-> ProposedLookup.lon])
        /\ Evaluated =>
            \A i \in GPs :
                (/\ gp_df[i].result_latitude = ProposedLookup.lat
                 /\ gp_df[i].result_longitude = ProposedLookup.lon)
                    => /\ IsZeroAt(results.nearest_dist, i)
                       /\ IsZeroAt(results.nearest_car, i)
                       /\ IsZeroAt(results.nearest_pt, i)

InPercentRange(pct) == RatLeq(Zero, pct) /\ RatLeq(pct, FromInt(100))

\* the evaluation of the same run without the last site of the site set
WithoutLastSite ==
    evaluation(SubSeq(hospital_df, 1, Len(hospital_df) - 1), gp_df, sidebar)

\* C15: the scenario total never exceeds the baseline total, both
\* improvement percentages lie in [0, 100], and neither is smaller than it
\* would be without the last site of the site set.
C15_ImprovementInRange ==
    Evaluated =>
        /\ RatLeq(results.total_weighted_car, results.baseline_total_car)
        /\ RatLeq(results.total_weighted_pt, results.baseline_total_pt)
        /\ InPercentRange(results.improvement_car_pct)
        /\ InPercentRange(results.improvement_pt_pct)
        /\ Len(hospital_df) >= 2 =>
            /\ RatLeq(WithoutLastSite.improvement_car_pct,
                      results.improvement_car_pct)
            /\ RatLeq(WithoutLastSite.improvement_pt_pct,
                      results.improvement_pt_pct)

\* a run whose last site raises the car improvement from below to a value
\* strictly between 0 and 100
C15_Witness ==
    /\ Evaluated
    /\ Len(hospital_df) >= 2
    /\ RatLess(Zero, results.improvement_car_pct)
    /\ RatLess(results.improvement_car_pct, FromInt(100))
    /\ RatLess(WithoutLastSite.improvement_car_pct, results.improvement_car_pct)

\* the sum over demand points of distance to the reference site x rate
ReferenceCostTotal(rate) ==
    SumOver(GPs, [i \in GPs |-> RatMul(results.dist.data[i][1], rate)])

\* C16 (as claimed): the baseline fuel-cost and CO2 totals subtracted in the
\* Summary are the sum over demand points of distance to the reference site
\* x rate, so with the reference site as the only site both deltas are 0.
C16_BaselineCostSameConversion ==
    Evaluated =>
        /\ results.co2_delta
             = RatSub(np_sum(results.co2), ReferenceCostTotal(sidebar.co2_per_mile))
        /\ results.fuel_delta
             = RatSub(np_sum(results.fuel), ReferenceCostTotal(sidebar.fuel_cost))
        /\ Len(hospital_df) = 1 =>
            results.co2_delta = Zero /\ results.fuel_delta = Zero

====
